---- MODULE Spec2Model ----
(***************************************************************************)
(* Model of the annovate library (src/src/lib.rs): the line-oriented       *)
(* annotation file format, its parser, the in-memory store and the         *)
(* serializer.  Strings are sequences of one-character strings, so that    *)
(* trimming, line splitting and joining are computed as the code does.     *)
(***************************************************************************)
EXTENDS Integers, Sequences, FiniteSets, TLC

VARIABLES
    disk,        \* the file system: path -> file (existence, mode, content)
    initialDisk, \* the file system before the first operation (history)
    store,       \* the Annovate object held by the caller, if any
    ret,         \* the last library call: its name, arguments and result
    calls,       \* number of library calls made so far
    input,       \* parser run: the lines read so far
    pst,         \* parser run: the local variables of parse_annovate_file
    pphase,      \* parser run: "idle", "loop" (reading lines) or "done"
    fault,       \* the file operation that failed in the last bootstrap, if any
    cli          \* a run of the command line program: its arguments and position

vars == <<disk, initialDisk, store, ret, calls, input, pst, pphase, fault, cli>>

(***************************************************************************)
(* Bounds of the model.                                                    *)
(***************************************************************************)
MaxLines == 6   \* lines the parser reads in one run
MaxCalls == 4   \* library calls in one run

(***************************************************************************)
(* Strings.                                                                *)
(***************************************************************************)
NL == "\n"
SP == " "

Whitespace == {SP, "\t"}

\* a character whose UTF-8 encoding takes two bytes
EAcute == "U+00E9"

\* char::len_utf8
ByteLen(c) == IF c = EAcute THEN 2 ELSE 1

\* str::trim_right: drop the trailing whitespace
RECURSIVE trim_right(_)
trim_right(s) ==
    IF s = <<>> THEN s
    ELSE IF s[Len(s)] \in Whitespace THEN trim_right(SubSeq(s, 1, Len(s) - 1))
    ELSE s

\* index of the first "\n" of s at or after i, 0 if none
RECURSIVE FindNL(_, _)
FindNL(s, i) ==
    IF i > Len(s) THEN 0
    ELSE IF s[i] = NL THEN i
    ELSE FindNL(s, i + 1)

\* Lines iterator: pieces ended by "\n"; a last piece without "\n" is a
\* line only when it is not empty.
RECURSIVE SplitLines(_)
SplitLines(s) ==
    IF s = <<>> THEN <<>>
    ELSE LET n == FindNL(s, 1) IN
         IF n = 0 THEN <<s>>
         ELSE <<SubSeq(s, 1, n - 1)>> \o SplitLines(SubSeq(s, n + 1, Len(s)))

\* BufReader::lines() over the file content
ReaderLines(content) == SplitLines(content)

\* str::lines() over an annotation value
ValueLines(value) == SplitLines(value)

(***************************************************************************)
(* Annotations, errors, line classifier.                                   *)
(***************************************************************************)
Annotation(k, v, c) == [key |-> k, value |-> v, context |-> c]

NoError == [kind |-> "None", line |-> 0, symbol |-> SP]
ParseError(line_no, c) == [kind |-> "ParseError", line |-> line_no, symbol |-> c]
IOError == [kind |-> "IOError", line |-> 0, symbol |-> SP]

\* the thread panics: no Result is returned
Panic == [kind |-> "Panic", line |-> 0, symbol |-> SP]

\* Ok(()) is NoError
test_leader(last_leader, legal_chars, current_leader, line_no) ==
    IF last_leader \in legal_chars THEN NoError
    ELSE ParseError(line_no, current_leader)

\* line[ 1.. ] slices at byte 1, which panics inside a multi-byte character
extract_line_parts(line) ==
    IF Len(line) = 0 THEN [leader |-> SP, rest |-> line, panic |-> FALSE]
    ELSE IF ByteLen(Head(line)) # 1
        THEN [leader |-> Head(line), rest |-> <<>>, panic |-> TRUE]
    ELSE [leader |-> Head(line), rest |-> trim_right(Tail(line)), panic |-> FALSE]

(***************************************************************************)
(* Parser: the body of the loop of parse_annovate_file on one line, and    *)
(* the test after the loop.                                                *)
(***************************************************************************)
EmptyFiles == [n \in {} |-> <<>>]

ParserInit ==
    [ dir |-> <<>>, files |-> EmptyFiles,
      work_with_dir_fields |-> TRUE, current_file |-> <<>>,
      current_key |-> <<>>, current_value |-> <<>>,
      last_leader |-> SP, line_no |-> 1, err |-> NoError ]

FilesInsert(files, name, list) ==
    [n \in (DOMAIN files) \cup {name} |-> IF n = name THEN list ELSE files[n]]

Advance(st, leader) ==
    [st EXCEPT !.last_leader = leader, !.line_no = st.line_no + 1]

OnValueLine(st, rest) ==
    [st EXCEPT !.current_value =
        (IF st.current_value # <<>> THEN st.current_value \o <<NL>>
                                     ELSE st.current_value) \o rest]

\* variant: the pending value is not reset on a `>` line
OnKeyLine_NoReset(st, rest) ==
    [st EXCEPT !.current_key = rest]

OnKeyLine(st, rest) ==
    [st EXCEPT !.current_key = rest, !.current_value = <<>>]

\* variant: each `@` line starts a new map that holds only its own name
OnFileLine_DropsOthers(st, rest) ==
    [st EXCEPT !.files = [n \in {rest} |-> <<>>],
               !.current_file = rest,
               !.work_with_dir_fields = FALSE]

OnFileLine(st, rest) ==
    [st EXCEPT !.files = FilesInsert(st.files, rest, <<>>),
               !.current_file = rest,
               !.work_with_dir_fields = FALSE]

\* variant: every annotation is committed to the directory list
OnContextLine_AlwaysDir(st, rest) ==
    [st EXCEPT !.dir = Append(st.dir, Annotation(st.current_key, st.current_value, rest))]

OnContextLine(st, rest) ==
    LET anno == Annotation(st.current_key, st.current_value, rest) IN
    IF st.work_with_dir_fields
    THEN [st EXCEPT !.dir = Append(st.dir, anno)]
    ELSE [st EXCEPT !.files[st.current_file] = Append(st.files[st.current_file], anno)]

ParseStep(st, line) ==
    LET parts  == extract_line_parts(line)
        leader == parts.leader
        rest   == parts.rest
        legal  == IF leader \in {"@", ">"} THEN {"@", "<", SP}
                  ELSE IF leader = "=" THEN {">", "="}
                  ELSE {"=", ">"}
        chk    == test_leader(st.last_leader, legal, leader, st.line_no)
    IN  IF parts.panic THEN [st EXCEPT !.err = Panic]
        ELSE IF leader \notin {"@", ">", "=", "<"}
        THEN [st EXCEPT !.err = ParseError(st.line_no, leader)]
        ELSE IF chk # NoError THEN [st EXCEPT !.err = chk]
        ELSE IF leader = "@" THEN Advance(OnFileLine(st, rest), leader)
        ELSE IF leader = ">" THEN Advance(OnKeyLine(st, rest), leader)
        ELSE IF leader = "=" THEN Advance(OnValueLine(st, rest), leader)
        ELSE Advance(OnContextLine(st, rest), leader)

\* variant: a file ending on an `@` line is accepted as well
ParseEnd_AcceptsFileLine(st) ==
    IF st.last_leader \in {"<", "@"} THEN st
    ELSE [st EXCEPT !.err = ParseError(st.line_no, SP)]

ParseEnd(st) ==
    IF st.last_leader = "<" THEN st
    ELSE [st EXCEPT !.err = ParseError(st.line_no, SP)]

RECURSIVE ParseFrom(_, _)
ParseFrom(st, lines) ==
    IF st.err # NoError THEN st
    ELSE IF lines = <<>> THEN ParseEnd(st)
    ELSE ParseFrom(ParseStep(st, Head(lines)), Tail(lines))

ParseLines(lines) == ParseFrom(ParserInit, lines)

(***************************************************************************)
(* File system seen through File::open and File::create.                   *)
(***************************************************************************)
Paths == {"meta"}

NoFile == [exists |-> FALSE, readable |-> FALSE, writable |-> FALSE, content |-> <<>>]
FileOf(r, w, c) == [exists |-> TRUE, readable |-> r, writable |-> w, content |-> c]

\* File::open succeeds on an existing, readable file
CanOpen(f) == f.exists /\ f.readable

\* File::create succeeds on a missing file or an existing writable one
CanCreate(f) == (~f.exists) \/ f.writable

\* File::create followed by the writes: the file holds exactly what was written
Written(f, c) ==
    IF f.exists THEN [f EXCEPT !.content = c] ELSE FileOf(TRUE, TRUE, c)

(***************************************************************************)
(* Bootstrap: create_new_annovate_file.                                    *)
(***************************************************************************)
Digit == <<"0", "1", "2", "3", "4", "5", "6", "7", "8", "9">>

\* format!( "{}", n ) for a non-negative integer
RECURSIVE ToDecimal(_)
ToDecimal(n) ==
    IF n < 10 THEN <<Digit[n + 1]>>
    ELSE ToDecimal(n \div 10) \o <<Digit[(n % 10) + 1]>>

Tm(mday, mon, year, hour, min, sec) ==
    [tm_mday |-> mday, tm_mon |-> mon, tm_year |-> year,
     tm_hour |-> hour, tm_min |-> min, tm_sec |-> sec]

\* values time::now() returns in the model
Nows == { Tm(5, 10, 126, 9, 3, 0), Tm(24, 11, 99, 23, 59, 59) }

timestring(now) ==
    ToDecimal(now.tm_mday) \o <<".">> \o ToDecimal(now.tm_mon + 1) \o <<".">>
      \o ToDecimal(now.tm_year + 1900) \o <<SP>> \o ToDecimal(now.tm_hour)
      \o <<":">> \o ToDecimal(now.tm_min) \o <<":">> \o ToDecimal(now.tm_sec)

CreationKey == <<"c","r","e","a","t","i","o","n"," ","t","i","m","e">>
CreationReason == <<"n","e","w"," ","a","n","n","o","v","a","t","e"," ","f","i","l","e">>

BootstrapContent(now, creation_reason) ==
    <<">">> \o CreationKey \o <<NL>>
      \o <<"=">> \o timestring(now) \o <<NL>>
      \o <<"<">> \o timestring(now) \o <<",", SP>> \o creation_reason \o <<NL>>

\* result: the error (NoError for Ok) and the file afterwards
create_new_annovate_file(f, creation_reason, now) ==
    IF ~CanCreate(f) THEN [err |-> IOError, file |-> f]
    ELSE [err |-> NoError, file |-> Written(f, BootstrapContent(now, creation_reason))]

(***************************************************************************)
(* Bootstrap on a file system whose operations can fail.                   *)
(***************************************************************************)
Faults == {"none", "create", "write", "flush"}

\* the pieces write! hands to the file one after the other
BootstrapPieces(now, creation_reason) ==
    << <<">">> \o CreationKey \o <<NL, "=">>,
       timestring(now),
       <<NL, "<">>,
       timestring(now),
       <<",", SP>>,
       creation_reason,
       <<NL>> >>

RECURSIVE FirstPieces(_, _)
FirstPieces(pieces, n) ==
    IF n = 0 \/ pieces = <<>> THEN <<>>
    ELSE Head(pieces) \o FirstPieces(Tail(pieces), n - 1)

\* create_new_annovate_file when the operation `failed` fails, the write
\* after `done` pieces; the result of write! is not looked at
create_new_annovate_file_io(f, creation_reason, now, failed, done) ==
    LET pieces == BootstrapPieces(now, creation_reason) IN
    IF failed = "create" \/ ~CanCreate(f) THEN [err |-> IOError, file |-> f]
    ELSE IF failed = "write"
        THEN [err |-> NoError, file |-> Written(f, FirstPieces(pieces, done))]
    ELSE IF failed = "flush"
        THEN [err |-> IOError, file |-> Written(f, FirstPieces(pieces, Len(pieces)))]
    ELSE [err |-> NoError, file |-> Written(f, FirstPieces(pieces, Len(pieces)))]

(***************************************************************************)
(* The store (struct Annovate) and its read accessors.                     *)
(***************************************************************************)
NoStore ==
    [open |-> FALSE, dir |-> <<>>, files |-> EmptyFiles,
     save_changes |-> FALSE, filename |-> ""]

StoreOf(st, filepath) ==
    [open |-> TRUE, dir |-> st.dir, files |-> st.files,
     save_changes |-> TRUE, filename |-> filepath]

\* variant: the file is created anew whether or not it can be opened
parse_annovate_file_AlwaysCreates(f, filepath, now) ==
    LET boot == create_new_annovate_file(f, CreationReason, now)
        st   == ParseLines(ReaderLines(boot.file.content))
    IN  IF boot.err # NoError \/ ~CanOpen(boot.file)
            THEN [err |-> IOError, store |-> NoStore, file |-> boot.file]
        ELSE IF st.err # NoError
            THEN [err |-> st.err, store |-> NoStore, file |-> boot.file]
        ELSE [err |-> NoError, store |-> StoreOf(st, filepath), file |-> boot.file]

\* parse_annovate_file: open (bootstrapping when the open fails), then parse
parse_annovate_file(f, filepath, now) ==
    LET boot == create_new_annovate_file(f, CreationReason, now)
        f2   == IF CanOpen(f) THEN f ELSE boot.file
        st   == ParseLines(ReaderLines(f2.content))
    IN  IF ~CanOpen(f) /\ boot.err # NoError
            THEN [err |-> IOError, store |-> NoStore, file |-> f2]
        ELSE IF ~CanOpen(f2)
            THEN [err |-> IOError, store |-> NoStore, file |-> f2]
        ELSE IF st.err # NoError
            THEN [err |-> st.err, store |-> NoStore, file |-> f2]
        ELSE [err |-> NoError, store |-> StoreOf(st, filepath), file |-> f2]

\* the orders self.files.keys() can produce
KeyOrders(files) ==
    { o \in [1..Cardinality(DOMAIN files) -> DOMAIN files] :
        \A i, j \in DOMAIN o : i # j => o[i] # o[j] }

\* the vectors get_files can return: the keys of the map in some order
get_files(s) == KeyOrders(s.files)

\* parse_annovate_file with a bootstrap whose file operations can fail
parse_annovate_file_io(f, filepath, now, failed, done) ==
    LET boot == create_new_annovate_file_io(f, CreationReason, now, failed, done)
        f2   == IF CanOpen(f) THEN f ELSE boot.file
        st   == ParseLines(ReaderLines(f2.content))
    IN  IF ~CanOpen(f) /\ boot.err # NoError
            THEN [err |-> IOError, store |-> NoStore, file |-> f2]
        ELSE IF ~CanOpen(f2)
            THEN [err |-> IOError, store |-> NoStore, file |-> f2]
        ELSE IF st.err # NoError
            THEN [err |-> st.err, store |-> NoStore, file |-> f2]
        ELSE [err |-> NoError, store |-> StoreOf(st, filepath), file |-> f2]

get_directory_annotations(s) == s.dir

\* Option<&AnnoContainer>
get_file_annotations(s, filename) ==
    IF filename \in DOMAIN s.files
    THEN [found |-> TRUE, list |-> s.files[filename]]
    ELSE [found |-> FALSE, list |-> <<>>]

(***************************************************************************)
(* Serializer: save_as.                                                    *)
(***************************************************************************)
RECURSIVE ValueText(_)
ValueText(ls) ==
    IF ls = <<>> THEN <<>>
    ELSE <<"=">> \o Head(ls) \o <<NL>> \o ValueText(Tail(ls))

\* variant: the value is written as it is after a single `=`
WriteAnnotation_SingleValueLine(anno) ==
    <<">">> \o anno.key \o <<NL>>
      \o <<"=">> \o anno.value \o <<NL>>
      \o <<"<">> \o anno.context \o <<NL>>

WriteAnnotation(anno) ==
    <<">">> \o anno.key \o <<NL>>
      \o ValueText(ValueLines(anno.value))
      \o <<"<">> \o anno.context \o <<NL>>

RECURSIVE write_annotations(_)
write_annotations(annotations) ==
    IF annotations = <<>> THEN <<>>
    ELSE WriteAnnotation(Head(annotations)) \o write_annotations(Tail(annotations))

RECURSIVE WriteFiles(_, _)
WriteFiles(files, order) ==
    IF order = <<>> THEN <<>>
    ELSE <<"@">> \o Head(order) \o <<NL>>
           \o write_annotations(files[Head(order)])
           \o WriteFiles(files, Tail(order))

SaveContent(s, order) == write_annotations(s.dir) \o WriteFiles(s.files, order)

(***************************************************************************)
(* Store mutations.                                                        *)
(***************************************************************************)
\* variant: only the first annotation with the key is deleted
RECURSIVE Retain_FirstOnly(_, _)
Retain_FirstOnly(list, key) ==
    IF list = <<>> THEN <<>>
    ELSE IF Head(list).key = key THEN Tail(list)
    ELSE <<Head(list)>> \o Retain_FirstOnly(Tail(list), key)

\* Vec::retain( |x| x.key != key )
Retain(list, key) == SelectSeq(list, LAMBDA x : x.key # key)

AddDir(s, anno) == [s EXCEPT !.dir = Append(s.dir, anno)]

\* variant: the name is mapped to a fresh list holding only the new annotation
AddFile_Replaces(s, filename, anno) ==
    [s EXCEPT !.files = FilesInsert(s.files, filename, <<anno>>)]

AddFile(s, filename, anno) ==
    LET vals == IF filename \in DOMAIN s.files THEN s.files[filename] ELSE <<>>
    IN  [s EXCEPT !.files = FilesInsert(s.files, filename, Append(vals, anno))]

RemoveDir(s, key) == [s EXCEPT !.dir = Retain(s.dir, key)]

RemoveDirResult(s, key) == Len(s.dir) > Len(Retain(s.dir, key))

\* variant: an unknown name is registered with an empty list
RemoveFile_Registers(s, filename, key) ==
    IF filename \in DOMAIN s.files
    THEN [s EXCEPT !.files[filename] = Retain(s.files[filename], key)]
    ELSE [s EXCEPT !.files = FilesInsert(s.files, filename, <<>>)]

RemoveFile(s, filename, key) ==
    IF filename \in DOMAIN s.files
    THEN [s EXCEPT !.files[filename] = Retain(s.files[filename], key)]
    ELSE s

RemoveFileResult(s, filename, key) ==
    IF filename \in DOMAIN s.files
    THEN Len(s.files[filename]) > Len(Retain(s.files[filename], key))
    ELSE FALSE

\* variant: the list is emptied but the name stays registered
DropFile_KeepsName(s, filename) ==
    IF filename \in DOMAIN s.files THEN [s EXCEPT !.files[filename] = <<>>] ELSE s

DropFile(s, filename) ==
    [s EXCEPT !.files = [n \in (DOMAIN s.files) \ {filename} |-> s.files[n]]]

DropFileResult(s, filename) == filename \in DOMAIN s.files

(***************************************************************************)
(* Inputs of the model.                                                    *)
(***************************************************************************)
KeySet == { <<"k">>, <<"j">> }
ValueSet == { <<"v">>, <<NL, "v">> }
ContextSet == { <<"c">> }
AnnoSet == { Annotation(k, v, c) : k \in KeySet, v \in ValueSet, c \in ContextSet }
NameSet == { <<"f">>, <<"g">> }
RemoveKeySet == KeySet \cup {CreationKey}

ValidContent ==
    <<">", "k", NL, "=", "v", NL, "<", "c", NL,
      ">", "j", NL, "=", "v", NL, "<", "c", NL,
      ">", "k", NL, "=", "w", NL, "<", "c", NL>>
TruncatedContent == <<">", "k", NL>>

InitialFiles ==
    { NoFile,
      FileOf(TRUE, FALSE, ValidContent),      \* read-only
      FileOf(TRUE, TRUE, TruncatedContent),   \* malformed
      FileOf(FALSE, TRUE, ValidContent),      \* write-only
      FileOf(FALSE, FALSE, ValidContent) }    \* no access

NoAnno == Annotation(<<>>, <<>>, <<>>)

Call(op, name, key, anno, val, err) ==
    [op |-> op, name |-> name, key |-> key, anno |-> anno, val |-> val, err |-> err]

NoCall == Call("none", <<>>, <<>>, NoAnno, FALSE, NoError)

(***************************************************************************)
(* The library as a state machine: one action per public operation.        *)
(***************************************************************************)
(***************************************************************************)
(* The command line program (src/src/main.rs): arguments, commands.        *)
(***************************************************************************)
Args(cmd, filenames, keys, values, a, C) ==
    [cmd |-> cmd, arg_filename |-> filenames, arg_key |-> keys, arg_value |-> values,
     flag_a |-> a, flag_C |-> C, flag_m |-> "", flag_M |-> ""]

NoArgs == Args("none", <<>>, <<>>, <<>>, FALSE, <<>>)

\* what the program prints: a value, a displayed annotation, a message
Item(kind, text, anno) == [kind |-> kind, text |-> text, anno |-> anno]
ValueItem(value) == Item("value", value, NoAnno)
RowItem(anno) == Item("row", <<>>, anno)
WarningItem(subject) == Item("warning", subject, NoAnno)
ErrorItem(err) == Item("error", <<err.kind>>, NoAnno)
FatalItem == Item("fatal", <<>>, NoAnno)

CliIdle ==
    [phase |-> "idle", args |-> NoArgs, context |-> <<>>, out |-> <<>>, err |-> NoError,
     ran |-> FALSE, require_write_to_disk |-> FALSE, saved |-> FALSE, io |-> <<>>]

\* the file operations of a run: a file read through its handle, a file
\* created (truncated) and written
IoOp(op, path) == [op |-> op, path |-> path]

\* lib.rs 88-105: what the open does to the file
OpenLog(f, path, now) ==
    LET boot == create_new_annovate_file(f, CreationReason, now) IN
    IF CanOpen(f) THEN <<IoOp("read", path)>>
    ELSE IF ~CanCreate(f) THEN <<>>
    ELSE IF CanOpen(boot.file) THEN <<IoOp("write", path), IoOp("read", path)>>
    ELSE <<IoOp("write", path)>>

\* main.rs 218-224: the meta file and the output file
meta_file(args) == IF args.flag_m # "" THEN args.flag_m ELSE CHOOSE p \in Paths : TRUE
meta_outfile(args) == IF args.flag_M # "" THEN args.flag_M ELSE meta_file(args)

\* format!( "{:02}", n )
Pad2(n) == IF n < 10 THEN <<"0">> \o ToDecimal(n) ELSE ToDecimal(n)

ProgramName == <<"a","n","n","o","v","a","t","e"," ","p","r","o","g","r","a","m",",",SP>>

\* main.rs 229-243
context(args, now) ==
    IF args.flag_C # <<>> THEN args.flag_C
    ELSE ProgramName \o ToDecimal(now.tm_mday) \o <<".">> \o ToDecimal(now.tm_mon + 1)
           \o <<".">> \o ToDecimal(now.tm_year + 1900) \o <<SP>> \o Pad2(now.tm_hour)
           \o <<":">> \o Pad2(now.tm_min) \o <<":">> \o Pad2(now.tm_sec)

Reverse(list) == [i \in 1..Len(list) |-> list[Len(list) + 1 - i]]

RECURSIVE FilterSeen(_, _)
FilterSeen(list, seen) ==
    IF list = <<>> THEN <<>>
    ELSE IF Head(list).key \in seen THEN FilterSeen(Tail(list), seen)
    ELSE <<Head(list)>> \o FilterSeen(Tail(list), seen \cup {Head(list).key})

\* filter_duplicates: from the end, the first annotation of each key
filter_duplicates(container) == FilterSeen(Reverse(container), {})

\* display_anno_container: the annotations shown, one row each
display_anno_container(container, show_duplicates) ==
    LET shown == IF show_duplicates THEN container ELSE filter_duplicates(container)
    IN  [i \in 1..Len(shown) |-> RowItem(shown[i])]

Contains(list, x) == \E i \in 1..Len(list) : list[i] = x

\* main.rs 352-359: print the values of the key, stopping after the first
\* unless duplicates are asked for
RECURSIVE GetOutput(_, _, _)
GetOutput(annotations, key, show_duplicates) ==
    IF annotations = <<>> THEN <<>>
    ELSE IF Head(annotations).key = key
        THEN IF show_duplicates
             THEN <<ValueItem(Head(annotations).value)>>
                    \o GetOutput(Tail(annotations), key, show_duplicates)
             ELSE <<ValueItem(Head(annotations).value)>>
        ELSE GetOutput(Tail(annotations), key, show_duplicates)

\* the result of a command: the store, the output, whether a save is due,
\* whether report_error ended the program
Done(s, out, write) == [store |-> s, out |-> out, write |-> write, exited |-> FALSE]
Exited(s) == [store |-> s, out |-> <<Item("error", <<>>, NoAnno)>>, write |-> FALSE, exited |-> TRUE]

\* main.rs 264-285
CmdQuery(s, args, of_file) ==
    LET found == get_file_annotations(s, args.arg_filename[1])
        annotations == IF of_file THEN found.list ELSE get_directory_annotations(s)
        subset == SelectSeq(annotations, LAMBDA a : Contains(args.arg_key, a.key))
    IN  IF of_file /\ ~found.found THEN Exited(s)
        ELSE IF Len(args.arg_key) = 0
            THEN Done(s, display_anno_container(annotations, args.flag_a), FALSE)
        ELSE Done(s, display_anno_container(subset, args.flag_a), FALSE)

\* main.rs 339-359
CmdGet(s, args, of_file) ==
    LET found == get_file_annotations(s, args.arg_filename[1])
        annotations == IF of_file THEN found.list ELSE get_directory_annotations(s)
    IN  IF of_file /\ ~found.found THEN Exited(s)
        ELSE Done(s, GetOutput(annotations, args.arg_key[1], args.flag_a), FALSE)

Min2(a, b) == IF a <= b THEN a ELSE b

\* the loop over args.arg_key.iter().zip( args.arg_value ), from pair i on
RECURSIVE PutPairs(_, _, _, _, _)
PutPairs(s, args, ctx, of_file, i) ==
    IF i > Min2(Len(args.arg_key), Len(args.arg_value)) THEN s
    ELSE LET anno == Annotation(args.arg_key[i], args.arg_value[i], ctx)
         IN  PutPairs(IF of_file THEN AddFile(s, args.arg_filename[1], anno)
                                 ELSE AddDir(s, anno),
                      args, ctx, of_file, i + 1)

\* main.rs 295-304
RECURSIVE PutBatch(_, _, _, _)
PutBatch(s, args, ctx, i) ==
    IF i > Len(args.arg_filename) THEN s
    ELSE PutBatch(AddFile(s, args.arg_filename[i],
                          Annotation(args.arg_key[1], args.arg_value[1], ctx)),
                  args, ctx, i + 1)

\* main.rs 397-413: remove each key, warn when nothing matched
RECURSIVE RemoveKeys(_, _, _, _)
RemoveKeys(r, args, of_file, i) ==
    IF i > Len(args.arg_key) THEN r
    ELSE LET key == args.arg_key[i]
             hit == IF of_file THEN RemoveFileResult(r.store, args.arg_filename[1], key)
                               ELSE RemoveDirResult(r.store, key)
             s2  == IF of_file THEN RemoveFile(r.store, args.arg_filename[1], key)
                               ELSE RemoveDir(r.store, key)
         IN  RemoveKeys(Done(s2, IF hit THEN r.out ELSE Append(r.out, WarningItem(key)), TRUE),
                        args, of_file, i + 1)

\* main.rs 414-421
RECURSIVE DropFiles(_, _, _)
DropFiles(r, args, i) ==
    IF i > Len(args.arg_filename) THEN r
    ELSE LET file == args.arg_filename[i] IN
         DropFiles(Done(DropFile(r.store, file),
                        IF DropFileResult(r.store, file) THEN r.out
                        ELSE Append(r.out, WarningItem(file)), TRUE),
                   args, i + 1)

\* main.rs 261-424: the command chosen by the arguments
RunCommand(s, args, ctx) ==
    IF args.cmd = "query" THEN CmdQuery(s, args, TRUE)
    ELSE IF args.cmd = "query_dir" THEN CmdQuery(s, args, FALSE)
    ELSE IF args.cmd = "get" THEN CmdGet(s, args, TRUE)
    ELSE IF args.cmd = "get_dir" THEN CmdGet(s, args, FALSE)
    ELSE IF args.cmd = "put" THEN Done(PutPairs(s, args, ctx, TRUE, 1), <<>>, TRUE)
    ELSE IF args.cmd = "put_dir" THEN Done(PutPairs(s, args, ctx, FALSE, 1), <<>>, TRUE)
    ELSE IF args.cmd = "put_batch" THEN Done(PutBatch(s, args, ctx, 1), <<>>, TRUE)
    ELSE IF args.cmd = "rm_file_key" THEN RemoveKeys(Done(s, <<>>, TRUE), args, TRUE, 1)
    ELSE IF args.cmd = "rm_dir_key" THEN RemoveKeys(Done(s, <<>>, TRUE), args, FALSE, 1)
    ELSE DropFiles(Done(s, <<>>, TRUE), args, 1)

DefaultKey == <<"d","e","s","c","r","i","p","t","i","o","n">>
MissingValue == <<"<","m","i","s","s","i","n","g","-","v","a","l","u","e",">">>
MissingContext == <<"<","m","i","s","s","i","n","g","-","c","o","n","t","e","x","t",">">>
HeaderFilename == <<"F","i","l","e","n","a","m","e">>
HeaderContext == <<"C","o","n","t","e","x","t">>

\* main.rs 321-334: the rows of one file, its name in the place of the key
ListRows(s, filename, key) ==
    LET found == SelectSeq(s.files[filename], LAMBDA a : a.key = key)
    IN  IF found = <<>> THEN <<Annotation(filename, MissingValue, MissingContext)>>
        ELSE [i \in 1..Len(found) |-> Annotation(filename, found[i].value, found[i].context)]

\* main.rs 317-335: the files in the order of get_files, dotfiles skipped
RECURSIVE ListAll(_, _, _, _)
ListAll(s, order, key, i) ==
    IF i > Len(order) THEN <<>>
    ELSE IF order[i] # <<>> /\ order[i][1] = "."
        THEN ListAll(s, order, key, i + 1)
    ELSE ListRows(s, order[i], key) \o ListAll(s, order, key, i + 1)

\* main.rs 313-338
CmdList(s, args, order) ==
    LET key == IF Len(args.arg_key) > 0 THEN args.arg_key[1] ELSE DefaultKey
        annotations == Append(ListAll(s, order, key, 1),
                              Annotation(HeaderFilename, key, HeaderContext))
    IN  Done(s, display_anno_container(annotations, args.flag_a), FALSE)

\* the orders in which a set of names can be walked
SetOrders(S) ==
    { o \in [1..Cardinality(S) -> S] : \A i, j \in 1..Cardinality(S) : i # j => o[i] # o[j] }

ReportRows(sign, order) ==
    [i \in 1..Len(order) |-> Item("report", <<sign, SP>> \o order[i], NoAnno)]

\* main.rs 360-395: the names compared with the entries of the directory
CmdReport(s, real_filenames) ==
    LET meta_filenames == DOMAIN s.files IN
    { Done(s, ReportRows("=", common) \o ReportRows("+", meta_exclusive)
                \o ReportRows("-", real_missing), FALSE) :
        common \in SetOrders(real_filenames \cap meta_filenames),
        meta_exclusive \in SetOrders(meta_filenames \ real_filenames),
        real_missing \in SetOrders(real_filenames \ meta_filenames) }

\* what read_dir( "." ) can list
DirListings == SUBSET { <<"f">>, <<"x">> }

\* the results a command can have: list and report depend on the order of
\* the map and on the directory, read_dir can fail
CommandResults(s, args, ctx) ==
    IF args.cmd = "list" THEN { CmdList(s, args, order) : order \in get_files(s) }
    ELSE IF args.cmd = "report"
        THEN {Exited(s)} \cup UNION { CmdReport(s, real) : real \in DirListings }
    ELSE {RunCommand(s, args, ctx)}

\* variant: a file that does not load is replaced by an empty store
AfterOpen_Repairs(r, filepath) ==
    IF r.err = NoError THEN [phase |-> "opened", store |-> r.store]
    ELSE [phase |-> "opened", store |-> StoreOf(ParserInit, filepath)]

\* main.rs 254-257: go on with the store, or print the error and return
AfterOpen(r, filepath) ==
    IF r.err = NoError THEN [phase |-> "opened", store |-> r.store]
    ELSE [phase |-> "exit", store |-> NoStore]

ParserIdle == input = <<>> /\ pst = ParserInit /\ pphase = "idle"

\* every library call counts against MaxCalls
Count == calls < MaxCalls /\ calls' = calls + 1

\* no file operation has failed, no program run is under way
NoFaultNoRun == fault = "none" /\ cli = CliIdle

Init ==
    /\ calls = 0
    /\ disk \in [Paths -> InitialFiles]
    /\ initialDisk = disk
    /\ store = NoStore
    /\ ret = NoCall
    /\ ParserIdle
    /\ NoFaultNoRun

\* Annovate::new( file )
New(file) ==
    \E now \in Nows :
        LET r == parse_annovate_file(disk[file], file, now) IN
        /\ disk' = [disk EXCEPT ![file] = r.file]
        /\ store' = r.store
        /\ ret' = Call("new", <<>>, <<>>, NoAnno, r.err = NoError, r.err)
        /\ Count /\ UNCHANGED <<initialDisk, input, pst, pphase, fault, cli>>

\* Annovate::save_as( outfile )
save_as(outfile) ==
    /\ store.open
    /\ IF ~CanCreate(disk[outfile])
       THEN /\ ret' = Call("save_as", <<>>, <<>>, NoAnno, FALSE, IOError)
            /\ UNCHANGED disk
       ELSE \E order \in KeyOrders(store.files) :
            /\ disk' = [disk EXCEPT ![outfile] = Written(disk[outfile], SaveContent(store, order))]
            /\ ret' = Call("save_as", <<>>, <<>>, NoAnno, TRUE, NoError)
    /\ Count /\ UNCHANGED <<initialDisk, store, input, pst, pphase, fault, cli>>

add_directory_annotation(anno) ==
    /\ store.open
    /\ store' = AddDir(store, anno)
    /\ ret' = Call("add_directory_annotation", <<>>, <<>>, anno, TRUE, NoError)
    /\ Count /\ UNCHANGED <<disk, initialDisk, input, pst, pphase, fault, cli>>

remove_directory_annotation_entries(key) ==
    /\ store.open
    /\ store' = RemoveDir(store, key)
    /\ ret' = Call("remove_directory_annotation_entries", <<>>, key, NoAnno,
                   RemoveDirResult(store, key), NoError)
    /\ Count /\ UNCHANGED <<disk, initialDisk, input, pst, pphase, fault, cli>>

add_file_annotation(filename, anno) ==
    /\ store.open
    /\ store' = AddFile(store, filename, anno)
    /\ ret' = Call("add_file_annotation", filename, <<>>, anno, TRUE, NoError)
    /\ Count /\ UNCHANGED <<disk, initialDisk, input, pst, pphase, fault, cli>>

remove_file_annotation_entries(filename, key) ==
    /\ store.open
    /\ store' = RemoveFile(store, filename, key)
    /\ ret' = Call("remove_file_annotation_entries", filename, key, NoAnno,
                   RemoveFileResult(store, filename, key), NoError)
    /\ Count /\ UNCHANGED <<disk, initialDisk, input, pst, pphase, fault, cli>>

drop_file_annotations(filename) ==
    /\ store.open
    /\ store' = DropFile(store, filename)
    /\ ret' = Call("drop_file_annotations", filename, <<>>, NoAnno,
                   DropFileResult(store, filename), NoError)
    /\ Count /\ UNCHANGED <<disk, initialDisk, input, pst, pphase, fault, cli>>

Next ==
    \/ \E file \in Paths : New(file)
    \/ \E outfile \in Paths : save_as(outfile)
    \/ \E anno \in AnnoSet : add_directory_annotation(anno)
    \/ \E key \in RemoveKeySet : remove_directory_annotation_entries(key)
    \/ \E filename \in NameSet, anno \in AnnoSet : add_file_annotation(filename, anno)
    \/ \E filename \in NameSet, key \in RemoveKeySet :
           remove_file_annotation_entries(filename, key)
    \/ \E filename \in NameSet : drop_file_annotations(filename)

Spec == Init /\ [][Next]_vars

(***************************************************************************)
(* The library on a file system whose operations can fail during the       *)
(* bootstrap.                                                              *)
(***************************************************************************)
\* Annovate::new( file ); a file operation of the bootstrap may fail
NewFaulty(file) ==
    \E now \in Nows, failed \in Faults,
       done \in 0..(Len(BootstrapPieces(CHOOSE t \in Nows : TRUE, CreationReason)) - 1) :
        LET r == parse_annovate_file_io(disk[file], file, now, failed, done) IN
        /\ (CanOpen(disk[file]) \/ ~CanCreate(disk[file])) => failed = "none"
        /\ failed # "write" => done = 0
        /\ disk' = [disk EXCEPT ![file] = r.file]
        /\ store' = r.store
        /\ ret' = Call("new", <<>>, <<>>, NoAnno, r.err = NoError, r.err)
        /\ fault' = failed
        /\ Count /\ UNCHANGED <<initialDisk, input, pst, pphase, cli>>

NextFault ==
    \/ \E file \in Paths : NewFaulty(file)
    \/ \E outfile \in Paths : save_as(outfile)
    \/ \E anno \in AnnoSet : add_directory_annotation(anno)
    \/ \E key \in RemoveKeySet : remove_directory_annotation_entries(key)
    \/ \E filename \in NameSet, anno \in AnnoSet : add_file_annotation(filename, anno)
    \/ \E filename \in NameSet, key \in RemoveKeySet :
           remove_file_annotation_entries(filename, key)
    \/ \E filename \in NameSet : drop_file_annotations(filename)

SpecFault == Init /\ [][NextFault]_vars

(***************************************************************************)
(* The command line program as a state machine: one run of main.           *)
(***************************************************************************)
\* a file with duplicates of a key, in the directory section and for a file
CliContent == ValidContent \o <<"@", "g", NL, "@", "f", NL>> \o ValidContent
BadLeaderContent == ValidContent \o <<"x", NL>>

CliInitialFiles ==
    { NoFile,
      FileOf(TRUE, TRUE, CliContent),
      FileOf(TRUE, FALSE, CliContent),        \* read-only
      FileOf(FALSE, TRUE, CliContent),        \* write-only
      FileOf(TRUE, TRUE, TruncatedContent),   \* malformed
      FileOf(TRUE, TRUE, BadLeaderContent) }  \* malformed

\* the path given with -M, and the files found there
OutPath == "out"
CliPaths == Paths \cup {OutPath}
CliOutFiles == { NoFile, FileOf(TRUE, TRUE, TruncatedContent), FileOf(TRUE, FALSE, ValidContent) }

CliKeyLists == { <<k>> : k \in KeySet } \cup { << <<"k">>, <<"j">> >> }
CliNameLists == { <<n>> : n \in NameSet } \cup { << <<"f">>, <<"g">> >> }
CliContexts == { <<>>, <<"c">> }

CliCommands ==
    { Args(cmd, <<n>>, <<k>>, <<>>, a, <<>>) :
        cmd \in {"get"}, n \in NameSet \cup {<<"h">>}, k \in KeySet, a \in BOOLEAN }
    \cup { Args("get_dir", <<>>, <<k>>, <<>>, a, <<>>) : k \in KeySet, a \in BOOLEAN }
    \cup { Args("query", <<n>>, ks, <<>>, a, <<>>) :
             n \in NameSet \cup {<<"h">>}, ks \in {<<>>, << <<"k">> >>}, a \in BOOLEAN }
    \cup { Args("query_dir", <<>>, ks, <<>>, a, <<>>) :
             ks \in {<<>>, << <<"k">> >>}, a \in BOOLEAN }
    \cup { Args("put", <<n>>, ks, [i \in 1..Len(ks) |-> <<"v">>], FALSE, C) :
             n \in NameSet, ks \in CliKeyLists, C \in CliContexts }
    \cup { Args("put_dir", <<>>, ks, [i \in 1..Len(ks) |-> <<"v">>], FALSE, C) :
             ks \in CliKeyLists, C \in CliContexts }
    \cup { Args("put_batch", ns, << <<"k">> >>, << <<"v">> >>, FALSE, C) :
             ns \in CliNameLists, C \in CliContexts }
    \cup { Args("rm_file_key", <<n>>, ks, <<>>, FALSE, <<>>) :
             n \in NameSet \cup {<<"h">>}, ks \in CliKeyLists }
    \cup { Args("rm_dir_key", <<>>, ks, <<>>, FALSE, <<>>) : ks \in CliKeyLists }
    \cup { Args("drop_file", ns, <<>>, <<>>, FALSE, <<>>) :
             ns \in CliNameLists \cup { << <<"h">> >> } }
    \cup { Args("list", <<>>, ks, <<>>, a, <<>>) :
             ks \in {<<>>, << <<"k">> >>}, a \in BOOLEAN }
    \cup { Args("report", <<>>, <<>>, <<>>, FALSE, <<>>) }

\* every command, without and with -M
CliArgsSet == { [args EXCEPT !.flag_M = M] : args \in CliCommands, M \in {"", OutPath} }

\* main.rs 203-243: the arguments are decoded, the context is chosen
InitCli ==
    /\ calls = 0
    /\ disk \in [CliPaths -> CliInitialFiles \cup CliOutFiles]
    /\ \A p \in Paths : disk[p] \in CliInitialFiles
    /\ disk[OutPath] \in CliOutFiles
    /\ initialDisk = disk
    /\ store = NoStore
    /\ ret = NoCall
    /\ ParserIdle
    /\ fault = "none"
    /\ \E args \in CliArgsSet, now \in Nows :
           cli = [CliIdle EXCEPT !.phase = "start", !.args = args,
                                 !.context = context(args, now)]

\* main.rs 254-257: Annovate::new( meta_file )
CliOpen ==
    /\ cli.phase = "start"
    /\ \E now \in Nows :
        LET file == meta_file(cli.args)
            r    == parse_annovate_file(disk[file], file, now)
            next == AfterOpen(r, file)
        IN  /\ disk' = [disk EXCEPT ![file] = r.file]
            /\ store' = next.store
            /\ cli' = [cli EXCEPT !.phase = next.phase, !.err = r.err,
                                  !.out = IF r.err = NoError THEN <<>> ELSE <<ErrorItem(r.err)>>,
                                  !.io = cli.io \o OpenLog(disk[file], file, now)]
    /\ UNCHANGED <<initialDisk, ret, calls, input, pst, pphase, fault>>

\* main.rs 259-424: the command
CliRun ==
    /\ cli.phase = "opened"
    /\ \E r \in CommandResults(store, cli.args, cli.context) :
        /\ store' = r.store
        /\ cli' = [cli EXCEPT !.phase = IF r.exited THEN "exit" ELSE "ran",
                              !.out = cli.out \o r.out, !.ran = TRUE,
                              !.require_write_to_disk = r.write]
    /\ UNCHANGED <<disk, initialDisk, ret, calls, input, pst, pphase, fault>>

\* main.rs 426-430: anno.save_as( meta_outfile )
CliSave ==
    /\ cli.phase = "ran" /\ cli.require_write_to_disk
    /\ LET outfile == meta_outfile(cli.args) IN
       IF ~CanCreate(disk[outfile])
       THEN /\ cli' = [cli EXCEPT !.phase = "exit", !.saved = TRUE,
                                  !.out = Append(cli.out, FatalItem)]
            /\ UNCHANGED disk
       ELSE \E order \in KeyOrders(store.files) :
            /\ disk' = [disk EXCEPT ![outfile] = Written(disk[outfile], SaveContent(store, order))]
            /\ cli' = [cli EXCEPT !.phase = "exit", !.saved = TRUE,
                                  !.io = Append(cli.io, IoOp("write", outfile))]
    /\ UNCHANGED <<initialDisk, store, ret, calls, input, pst, pphase, fault>>

\* main.rs 426: nothing to write
CliReturn ==
    /\ cli.phase = "ran" /\ ~cli.require_write_to_disk
    /\ cli' = [cli EXCEPT !.phase = "exit"]
    /\ UNCHANGED <<disk, initialDisk, store, ret, calls, input, pst, pphase, fault>>

NextCli == CliOpen \/ CliRun \/ CliSave \/ CliReturn

SpecCli == InitCli /\ [][NextCli]_vars

(***************************************************************************)
(* The parser as a state machine: one action per iteration of the loop     *)
(* over reader.lines(), one for the test after the loop.                   *)
(***************************************************************************)
ParseLineSet ==
    { <<"@", "f">>, <<"@", "g">>,
      <<">", "k">>, <<">", "j", SP>>,
      <<"=", "v">>, <<"=">>, <<"=", "w", SP>>,
      <<"<", "c">>, <<"<">>,
      <<>>, <<"x", "k">>, <<SP, "k">>, <<EAcute, "k">> }

LibraryIdle ==
    /\ disk = [p \in Paths |-> NoFile]
    /\ initialDisk = disk
    /\ store = NoStore
    /\ ret = NoCall
    /\ calls = 0
    /\ NoFaultNoRun

InitParse ==
    /\ LibraryIdle
    /\ input = <<>>
    /\ pst = ParserInit
    /\ pphase = "loop"

\* the reader yields one more line: lib.rs 105-141
ParseLine(line) ==
    /\ pphase = "loop"
    /\ Len(input) < MaxLines
    /\ input' = Append(input, line)
    /\ pst' = ParseStep(pst, line)
    /\ pphase' = IF pst'.err # NoError THEN "done" ELSE "loop"
    /\ UNCHANGED <<disk, initialDisk, store, ret, calls, fault, cli>>

\* the reader is exhausted: lib.rs 143-147
ParseEof ==
    /\ pphase = "loop"
    /\ pst' = ParseEnd(pst)
    /\ pphase' = "done"
    /\ UNCHANGED <<disk, initialDisk, store, ret, calls, input, fault, cli>>

NextParse ==
    \/ \E line \in ParseLineSet : ParseLine(line)
    \/ ParseEof

SpecParse == InitParse /\ [][NextParse]_vars

(***************************************************************************)
(* Vocabulary of the properties of the parser, stated over the lines read. *)
(***************************************************************************)
\* the leader of a line as the format defines it
LeaderOf(line) == IF line = <<>> THEN SP ELSE line[1]

\* the remainder of a line as the format defines it
RemainderOf(line) == IF line = <<>> THEN <<>> ELSE trim_right(Tail(line))

\* the leader before line i; "start" before the first line
PrevLeader(i) == IF i = 1 THEN "start" ELSE LeaderOf(input[i - 1])

LegalPrev(c) ==
    IF c \in {"@", ">"} THEN {"@", "<", "start"}
    ELSE IF c = "=" THEN {">", "="}
    ELSE IF c = "<" THEN {"=", ">"}
    ELSE {}

BadLine(i) == PrevLeader(i) \notin LegalPrev(LeaderOf(input[i]))

BadLines == { i \in 1..Len(input) : BadLine(i) }

\* number of the first line the format forbids, 0 if there is none
FirstBad == IF BadLines = {} THEN 0
            ELSE CHOOSE i \in BadLines : \A j \in BadLines : i <= j

LastLeader == IF input = <<>> THEN "start" ELSE LeaderOf(input[Len(input)])

EofError == ParseError(Len(input) + 1, SP)

RECURSIVE JoinNL(_)
JoinNL(ss) ==
    IF ss = <<>> THEN <<>>
    ELSE IF Len(ss) = 1 THEN ss[1]
    ELSE ss[1] \o <<NL>> \o JoinNL(Tail(ss))

\* the line number of the last `>` line before line i
KeyLineBefore(i) ==
    CHOOSE g \in 1..(i - 1) :
        /\ LeaderOf(input[g]) = ">"
        /\ \A h \in (g + 1)..(i - 1) : LeaderOf(input[h]) # ">"

\* the remainders of the lines g+1 .. i-1
ValueRemainders(g, i) == [n \in 1..(i - 1 - g) |-> RemainderOf(input[g + n])]

\* the parser has just accepted a `<` line, line number Len(input)
JustCommitted ==
    /\ pphase = "loop"
    /\ input # <<>>
    /\ LeaderOf(input[Len(input)]) = "<"

\* the list the parser commits to, and the annotation committed last
TargetList == IF pst.work_with_dir_fields THEN pst.dir ELSE pst.files[pst.current_file]
LastCommitted == TargetList[Len(TargetList)]

\* C3: the parser rejects exactly the first line whose leader is not one of
\* @ > = < or follows a leader outside its legal set, with ParseError(n, c),
\* n the line's number and c its leader; no other line is rejected.
C3_LeaderLegality ==
    /\ (pphase = "done" /\ FirstBad # 0) =>
            pst.err = ParseError(FirstBad, LeaderOf(input[FirstBad]))
    /\ (pphase = "done" /\ FirstBad = 0) => pst.err \in {NoError, EofError}
    /\ (pphase = "loop") => (FirstBad = 0 /\ pst.err = NoError)

\* C4 as stated: a sequence of legal transitions is rejected exactly when it
\* ends with a dangling `>` or `=`, with the end-of-file error (stated for the
\* sequences that have a last line).
C4_Original ==
    (pphase = "done" /\ FirstBad = 0 /\ input # <<>>) =>
        /\ (pst.err # NoError) <=> (LastLeader \in {">", "="})
        /\ (pst.err # NoError) => pst.err = EofError

\* C4 amended: a sequence of legal transitions is rejected exactly when its
\* last leader is not `<` (dangling `>` or `=`, a last `@` line, or no line
\* at all), with ParseError(number of lines + 1, ' ').
C4_EndOfFile ==
    (pphase = "done" /\ FirstBad = 0) =>
        /\ (pst.err # NoError) <=> (LastLeader # "<")
        /\ (pst.err # NoError) => pst.err = EofError
        /\ (pst.err = NoError) => pst.line_no = Len(input) + 1

\* C4 witness: a sequence ending with a dangling `=` was rejected at the end
C4_Witness ==
    /\ pphase = "done"
    /\ FirstBad = 0
    /\ Len(input) = 2
    /\ LastLeader = "="
    /\ pst.err = ParseError(3, SP)

\* C4 witness: a sequence of legal lines ending on `<` was accepted
C4_WitnessAccepted ==
    /\ pphase = "done"
    /\ FirstBad = 0
    /\ Len(input) >= 3
    /\ LastLeader = "<"
    /\ pst.err = NoError

\* C5: the value committed by a `<` line is the remainders of the `=` lines
\* since the annotation's `>` line, joined with "\n".
C5_MultiLineValue ==
    JustCommitted =>
        LET i == Len(input)
            g == KeyLineBefore(i)
        IN  LastCommitted.value = JoinNL(ValueRemainders(g, i))

\* C6: a `<` line right after a `>` line is accepted and commits an
\* annotation with the key of the `>` line, the context of the `<` line and
\* the empty value.
C6_EmptyValue ==
    /\ \A i \in 2..Len(input) :
          (LeaderOf(input[i - 1]) = ">" /\ LeaderOf(input[i]) = "<" /\ FirstBad \notin 1..(i - 1))
              => pst.line_no > i
    /\ (JustCommitted /\ PrevLeader(Len(input)) = ">") =>
          LastCommitted = Annotation(RemainderOf(input[Len(input) - 1]), <<>>,
                                     RemainderOf(input[Len(input)]))

\* C6 witness: a later annotation without `=` line, in a file section, after
\* a directory annotation
C6_Witness ==
    /\ JustCommitted
    /\ Len(input) = 5
    /\ PrevLeader(5) = ">"
    /\ LeaderOf(input[3]) = "@"
    /\ Len(pst.dir) = 1
    /\ ~pst.work_with_dir_fields
    /\ LastCommitted.value = <<>>

(***************************************************************************)
(* Properties of the library.                                              *)
(***************************************************************************)
ThePath == CHOOSE p \in Paths : TRUE

\* what a parse of the file now at path p yields
Reparsed(p) == ParseLines(ReaderLines(disk[p].content))

\* C1: after a successful save, parsing the written file succeeds and yields
\* the directory list, the registered filenames and the file lists of the
\* store that was saved.
C1_RoundTrip ==
    (ret.op = "save_as" /\ ret.val) =>
        LET st == Reparsed(store.filename) IN
        /\ st.err = NoError
        /\ st.dir = store.dir
        /\ DOMAIN st.files = DOMAIN store.files
        /\ \A n \in DOMAIN store.files : st.files[n] = store.files[n]

\* C2: on a path that did not exist at first, every open succeeds.
C2_OpenAfterBootstrap ==
    (ret.op = "new" /\ ~initialDisk[ThePath].exists) => ret.val

\* old[i] survives in new at the position given by the survivors before it
RemovedExactly(old, new, key) ==
    LET keep == { i \in 1..Len(old) : old[i].key # key } IN
    /\ Len(new) = Cardinality(keep)
    /\ \A i \in keep : new[Cardinality({ j \in keep : j <= i })] = old[i]

HasKey(list, key) == \E i \in 1..Len(list) : list[i].key = key

C7_Step ==
    /\ (ret'.op = "remove_directory_annotation_entries") =>
          /\ RemovedExactly(store.dir, store'.dir, ret'.key)
          /\ store'.files = store.files
          /\ ret'.val = HasKey(store.dir, ret'.key)
    /\ (ret'.op = "remove_file_annotation_entries" /\ ret'.name \in DOMAIN store.files) =>
          /\ DOMAIN store'.files = DOMAIN store.files
          /\ RemovedExactly(store.files[ret'.name], store'.files[ret'.name], ret'.key)
          /\ \A n \in DOMAIN store.files \ {ret'.name} : store'.files[n] = store.files[n]
          /\ store'.dir = store.dir
          /\ ret'.val = HasKey(store.files[ret'.name], ret'.key)

\* C7: removal by key deletes all annotations with the key from the target
\* list and nothing else, keeps the order of the others, and returns true
\* exactly when the key was present.
C7_KeyRemoval == [][C7_Step]_vars

\* C7 witness: a removal deleted something and left two annotations
C7_Witness ==
    /\ ret.op = "remove_directory_annotation_entries"
    /\ ret.val
    /\ Len(store.dir) = 2
    /\ ~HasKey(store.dir, ret.key)

\* C7 witness: a removal on a registered file found nothing to delete
C7_WitnessAbsentKey ==
    /\ ret.op = "remove_file_annotation_entries"
    /\ ret.name \in DOMAIN store.files
    /\ ~ret.val
    /\ Len(store.files[ret.name]) >= 1

Occurrences(v, x) == Cardinality({ i \in DOMAIN v : v[i] = x })

C8_Step ==
    /\ (ret'.op = "add_file_annotation") =>
          /\ \A v \in get_files(store') : Occurrences(v, ret'.name) = 1
          /\ get_file_annotations(store', ret'.name).found
          /\ LET l == get_file_annotations(store', ret'.name).list
             IN  Len(l) >= 1 /\ l[Len(l)] = ret'.anno
    /\ (ret'.op = "drop_file_annotations") =>
          /\ ~get_file_annotations(store', ret'.name).found
          /\ \A v \in get_files(store') : Occurrences(v, ret'.name) = 0
          /\ ret'.val = get_file_annotations(store, ret'.name).found

\* C8: after add_file_annotation the name is listed once and looked up with
\* the annotation last; after drop_file_annotations it is neither listed nor
\* found, and the result tells whether it was registered.
C8_Registration == [][C8_Step]_vars

\* C8 witness: a registered file was dropped while another one stays
C8_Witness ==
    /\ ret.op = "drop_file_annotations"
    /\ ret.val
    /\ ~get_file_annotations(store, ret.name).found
    /\ DOMAIN store.files # {}

\* C8 witness: an annotation was added to a file that had one already
C8_WitnessAdd ==
    /\ ret.op = "add_file_annotation"
    /\ Len(store.files[ret.name]) = 2
    /\ Cardinality(DOMAIN store.files) = 2

IsBootstrapStore(s) ==
    /\ s.open
    /\ Len(s.dir) = 1
    /\ s.dir[1].key = CreationKey
    /\ DOMAIN s.files = {}

C9_Step ==
    /\ (ret'.op = "new" /\ ~disk[ThePath].exists) =>
          /\ ret'.val
          /\ disk'[ThePath].exists
          /\ IsBootstrapStore(store')
    /\ (ret'.op = "new" /\ ret.op = "new" /\ calls = 1 /\ ~initialDisk[ThePath].exists) =>
          /\ ret'.val
          /\ store' = store
          /\ disk' = disk

\* C9: opening a missing path creates a file that parses to one directory
\* annotation with key `creation time` and no files; opening it again
\* succeeds with the same store and leaves the file as it is.
C9_Bootstrap == [][C9_Step]_vars

\* C9 witness: the bootstrapped file was opened a second time
C9_Witness ==
    /\ calls = 2
    /\ ret.op = "new"
    /\ ret.val
    /\ ~initialDisk[ThePath].exists
    /\ IsBootstrapStore(store)

\* C10: a path that exists before Annovate::new holds the same content
\* after it.
C10_OpenDoesNotWrite ==
    (calls = 1 /\ ret.op = "new" /\ initialDisk[ThePath].exists) =>
        disk[ThePath].content = initialDisk[ThePath].content

C13_Step ==
    (ret'.op = "remove_file_annotation_entries" /\ ret'.name \notin DOMAIN store.files) =>
        /\ ret'.val = FALSE
        /\ ret'.err = NoError
        /\ store' = store
        /\ ~get_file_annotations(store', ret'.name).found

\* C13: remove_file_annotation_entries on a name that is not registered
\* returns false without error, leaves the store as it is and does not
\* register the name.
C13_UnknownName == [][C13_Step]_vars

\* C13 witness: a removal on an unknown name while another file is registered
C13_Witness ==
    /\ ret.op = "remove_file_annotation_entries"
    /\ store.open
    /\ ret.name \notin DOMAIN store.files
    /\ DOMAIN store.files # {}
    /\ ~ret.val

IsAppend(old, new, anno) ==
    /\ Len(new) = Len(old) + 1
    /\ \A i \in 1..Len(old) : new[i] = old[i]
    /\ new[Len(new)] = anno

C18_Step ==
    /\ (ret'.op = "add_directory_annotation") =>
          /\ IsAppend(store.dir, store'.dir, ret'.anno)
          /\ store'.files = store.files
    /\ (ret'.op = "add_file_annotation") =>
          /\ DOMAIN store'.files = DOMAIN store.files \cup {ret'.name}
          /\ IF ret'.name \in DOMAIN store.files
             THEN IsAppend(store.files[ret'.name], store'.files[ret'.name], ret'.anno)
             ELSE store'.files[ret'.name] = <<ret'.anno>>
          /\ \A n \in DOMAIN store.files \ {ret'.name} : store'.files[n] = store.files[n]
          /\ store'.dir = store.dir

\* C18: an add appends the annotation at the end of its target list and
\* leaves every other list and every other registration as it was; an
\* unregistered name is registered with the annotation as only element.
C18_AppendOnly == [][C18_Step]_vars

\* C18 witness: an annotation was appended to a file list that had one, with
\* a directory annotation and another file present
C18_Witness ==
    /\ ret.op = "add_file_annotation"
    /\ Len(store.files[ret.name]) = 2
    /\ store.files[ret.name][2] = ret.anno
    /\ Len(store.dir) >= 1

(***************************************************************************)
(* Further properties of the parser.                                       *)
(***************************************************************************)
\* the numbers of the `@` lines among the first n lines read
FileLines(n) == { i \in 1..n : LeaderOf(input[i]) = "@" }

Max(S) == CHOOSE i \in S : \A j \in S : j <= i

\* the step accepts a `<` line
CommitStep ==
    /\ pphase = "loop"
    /\ Len(input') = Len(input) + 1
    /\ LeaderOf(input'[Len(input')]) = "<"
    /\ pst'.err = NoError

C16_Step ==
    CommitStep =>
        LET i     == Len(input')
            anno  == Annotation(RemainderOf(input[KeyLineBefore(i)]),
                                pst'.current_value, RemainderOf(input'[i]))
            marks == FileLines(Len(input))
        IN  IF marks = {}
            THEN /\ IsAppend(pst.dir, pst'.dir, anno)
                 /\ pst'.files = pst.files
            ELSE LET name == RemainderOf(input[Max(marks)]) IN
                 /\ pst'.dir = pst.dir
                 /\ DOMAIN pst'.files = DOMAIN pst.files
                 /\ IsAppend(pst.files[name], pst'.files[name], anno)
                 /\ \A n \in DOMAIN pst.files \ {name} : pst'.files[n] = pst.files[n]

\* C16: a `<` line commits to the directory list exactly when no `@` line
\* was read before it, otherwise to the list of the name on the most recent
\* `@` line and to no other list, always at the end of the list.
C16_CommitTarget == [][C16_Step]_vars

\* C16 witness: a commit into the second file section, after a commit to
\* the first file
C16_Witness ==
    /\ JustCommitted
    /\ Len(pst.dir) = 0
    /\ Cardinality(DOMAIN pst.files) = 2
    /\ \A n \in DOMAIN pst.files : Len(pst.files[n]) = 1

RECURSIVE DropLeadingEmpty(_)
DropLeadingEmpty(ss) ==
    IF ss = <<>> THEN <<>>
    ELSE IF Head(ss) = <<>> THEN DropLeadingEmpty(Tail(ss))
    ELSE ss

\* C17: the pending value is empty after every `>` line, and a committed
\* value is made of the `=` lines since the annotation's own `>` line only.
C17_PendingValueReset ==
    /\ (pphase = "loop" /\ input # <<>> /\ LastLeader = ">") => pst.current_value = <<>>
    /\ JustCommitted =>
          LET i == Len(input)
              g == KeyLineBefore(i)
          IN  LastCommitted.value = JoinNL(DropLeadingEmpty(ValueRemainders(g, i)))

\* C17 witness: a second annotation with its own value after one with
\* another value
C17_Witness ==
    /\ JustCommitted
    /\ Len(input) = 6
    /\ Len(TargetList) = 2
    /\ TargetList[1].value = <<"v">>
    /\ TargetList[2].value = <<"w">>

Accepted == pphase = "done" /\ pst.err = NoError

\* the section of the `@` line i: the lines up to the next `@` line
SectionOf(i) ==
    { j \in (i + 1)..Len(input) : \A h \in (i + 1)..j : LeaderOf(input[h]) # "@" }

HasAnnotation(i) == \E j \in SectionOf(i) : LeaderOf(input[j]) = "<"

MarkedNames == { RemainderOf(input[i]) : i \in FileLines(Len(input)) }

\* C19: after a successful parse the registered names are exactly the names
\* on `@` lines, and a name whose sections hold no annotation has an empty
\* list.
C19_RegistrationByMarker ==
    Accepted =>
        /\ DOMAIN pst.files = MarkedNames
        /\ \A n \in MarkedNames :
              (\A i \in FileLines(Len(input)) :
                    RemainderOf(input[i]) = n => ~HasAnnotation(i))
                  => (n \in DOMAIN pst.files /\ pst.files[n] = <<>>)

\* C19 witness: an accepted file with an empty section and a filled one
C19_Witness ==
    /\ Accepted
    /\ Cardinality(DOMAIN pst.files) = 2
    /\ \E n \in DOMAIN pst.files : pst.files[n] = <<>>
    /\ \E n \in DOMAIN pst.files : pst.files[n] # <<>>

RECURSIVE SumLens(_, _)
SumLens(files, names) ==
    IF names = {} THEN 0
    ELSE LET n == CHOOSE x \in names : TRUE
         IN  Len(files[n]) + SumLens(files, names \ {n})

TotalAnnotations(st) == Len(st.dir) + SumLens(st.files, DOMAIN st.files)

\* C20: after a successful parse the store holds as many annotations as the
\* file has `<` lines.
C20_NoAnnotationLost ==
    Accepted =>
        TotalAnnotations(pst) = Cardinality({ i \in 1..Len(input) : LeaderOf(input[i]) = "<" })

(***************************************************************************)
(* The layout of a saved file, stated line by line.                        *)
(***************************************************************************)
NLPositions(v) == { i \in 1..Len(v) : v[i] = NL }

\* position of the n-th "\n" of v; 0 for n = 0
NthNL(v, n) ==
    IF n = 0 THEN 0
    ELSE CHOOSE i \in NLPositions(v) : Cardinality({ j \in NLPositions(v) : j <= i }) = n

\* the lines of a value: the pieces between its "\n", a final "\n" ending
\* the last line; the empty value has no line
LinesOfValue(v) ==
    LET k == Cardinality(NLPositions(v))
        n == IF v = <<>> \/ v[Len(v)] = NL THEN k ELSE k + 1
    IN  [ m \in 1..n |->
            SubSeq(v, NthNL(v, m - 1) + 1,
                   IF m <= k THEN NthNL(v, m) - 1 ELSE Len(v)) ]

TripleLines(a) ==
    <<(<<">">> \o a.key)>>
      \o [ m \in 1..Len(LinesOfValue(a.value)) |-> <<"=">> \o LinesOfValue(a.value)[m] ]
      \o <<(<<"<">> \o a.context)>>

RECURSIVE ListLines(_)
ListLines(list) ==
    IF list = <<>> THEN <<>> ELSE TripleLines(Head(list)) \o ListLines(Tail(list))

RECURSIVE SectionLines(_, _)
SectionLines(files, order) ==
    IF order = <<>> THEN <<>>
    ELSE <<(<<"@">> \o Head(order))>> \o ListLines(files[Head(order)])
           \o SectionLines(files, Tail(order))

RECURSIVE Unlines(_)
Unlines(ls) == IF ls = <<>> THEN <<>> ELSE Head(ls) \o <<NL>> \o Unlines(Tail(ls))

NameOrders(S) ==
    { o \in [1..Cardinality(S) -> S] : \A n \in S : \E i \in DOMAIN o : o[i] = n }

C15_Step ==
    (ret'.op = "save_as" /\ ret'.val) =>
        /\ store' = store
        /\ \E order \in NameOrders(DOMAIN store.files) :
              disk'[store.filename].content =
                  Unlines(ListLines(store.dir) \o SectionLines(store.files, order))

\* C15: a save writes the directory triples in list order, then each
\* registered name once on an `@` line followed by its triples in list
\* order, each annotation as one `>` line, one `=` line per line of its
\* value and one `<` line; the file holds nothing else.
C15_SerializerLayout == [][C15_Step]_vars

\* C15 witness: a store with a directory annotation and a file annotation of
\* two value lines was saved over a longer file
C15_Witness ==
    /\ ret.op = "save_as"
    /\ ret.val
    /\ Len(store.dir) >= 1
    /\ \E n \in DOMAIN store.files :
          \E i \in 1..Len(store.files[n]) : Len(LinesOfValue(store.files[n][i].value)) = 2

\* C15 witness: the save of an emptied store left nothing of the file that
\* the bootstrap had written
C15_WitnessOverwrite ==
    /\ ret.op = "save_as"
    /\ ret.val
    /\ ~initialDisk[store.filename].exists
    /\ store.dir = <<>>
    /\ disk[store.filename].content = <<>>

\* C11: when creating, writing or flushing the new file fails, Annovate::new
\* returns an IOError.
C11_BootstrapErrorPropagates ==
    (ret.op = "new" /\ fault # "none") => (~ret.val /\ ret.err = IOError /\ ~store.open)

(***************************************************************************)
(* Claims about the command line program (SpecCli).                        *)
(***************************************************************************)
\* the list a get / get-dir command reads
GetList ==
    IF cli.args.cmd = "get"
    THEN get_file_annotations(store, cli.args.arg_filename[1]).list
    ELSE get_directory_annotations(store)

\* a get / get-dir command without -a has printed, for a key that several
\* annotations of its list hold
GetOfRepeatedKey ==
    /\ cli.phase = "ran"
    /\ cli.args.cmd \in {"get", "get_dir"}
    /\ ~cli.args.flag_a
    /\ cli.args.cmd = "get" => get_file_annotations(store, cli.args.arg_filename[1]).found
    /\ Cardinality({ i \in 1..Len(GetList) : GetList[i].key = cli.args.arg_key[1] }) >= 2

\* C12: get / get-dir without -a prints exactly one value, that of the last
\* annotation of the list with the key.
C12_GetPrintsLast ==
    GetOfRepeatedKey =>
        LET key  == cli.args.arg_key[1]
            last == Max({ i \in 1..Len(GetList) : GetList[i].key = key })
        IN  cli.out = <<ValueItem(GetList[last].value)>>

\* the open of this run has failed with a ParseError
OpenParseError == cli.phase \notin {"idle", "start"} /\ cli.err.kind = "ParseError"

\* C14: when the load fails with a ParseError there is no store, the program
\* prints the error and ends: no command runs, nothing is saved, and the
\* file on disk is as it was.
C14_NoSilentRepair ==
    OpenParseError =>
        /\ store = NoStore
        /\ cli.phase = "exit" /\ ~cli.ran /\ ~cli.saved
        /\ cli.out = <<ErrorItem(cli.err)>>
        /\ disk = initialDisk

\* a put on a truncated file has ended at the open
C14_Witness ==
    /\ OpenParseError
    /\ cli.phase = "exit"
    /\ cli.args.cmd = "put"
    /\ disk[meta_file(cli.args)].content = TruncatedContent

\* the same on a file with an unknown leader
C14_WitnessBadLeader ==
    /\ OpenParseError
    /\ cli.args.cmd = "rm_dir_key"
    /\ cli.err = ParseError(10, "x")

ReadOnlyCommands == {"query", "query_dir", "list", "get", "get_dir", "report"}
MutatingCommands == {"put", "put_batch", "put_dir", "rm_file_key", "rm_dir_key", "drop_file"}

\* the file operations of the run of one kind, in their order
IoOf(op) == SelectSeq(cli.io, LAMBDA e : e.op = op)

\* the file operations after the read of the open
RECURSIVE AfterRead(_)
AfterRead(log) ==
    IF log = <<>> THEN <<>>
    ELSE IF Head(log).op = "read" THEN Tail(log)
    ELSE AfterRead(Tail(log))

\* the annotation file is read at most once, and once when the open succeeded
C21_ReadOnce ==
    /\ Len(IoOf("read")) <= 1
    /\ (cli.phase \in {"opened", "ran"} \/ cli.ran) =>
           IoOf("read") = <<IoOp("read", meta_file(cli.args))>>

\* a read-only command leaves every file that existed as it was
C21_ReadOnlyKeepsFiles ==
    cli.args.cmd \in ReadOnlyCommands =>
        \A p \in DOMAIN disk :
            initialDisk[p].exists =>
                /\ disk[p] = initialDisk[p]
                /\ \A i \in 1..Len(cli.io) : cli.io[i] # IoOp("write", p)

\* File::create of the save succeeds: the input file was opened, so it
\* exists; another output file is as it was at the start
SaveCanCreate ==
    IF meta_outfile(cli.args) = meta_file(cli.args)
    THEN disk[meta_file(cli.args)].writable
    ELSE CanCreate(initialDisk[meta_outfile(cli.args)])

\* a mutating command that has ended has saved once, after its mutations:
\* the output path holds the final store, or the save has failed and is reported
C21_WritesOnce ==
    (cli.phase = "exit" /\ cli.ran /\ cli.args.cmd \in MutatingCommands) =>
        LET outfile == meta_outfile(cli.args) IN
        /\ cli.saved
        /\ IF SaveCanCreate
           THEN /\ AfterRead(cli.io) = <<IoOp("write", outfile)>>
                /\ \E order \in KeyOrders(store.files) :
                       disk[outfile].content = SaveContent(store, order)
           ELSE /\ AfterRead(cli.io) = <<>>
                /\ cli.out # <<>> /\ cli.out[Len(cli.out)] = FatalItem

\* with a distinct output path an input file that existed is left as it was
C21_DistinctOutputKeepsInput ==
    (cli.args.flag_M # "" /\ meta_outfile(cli.args) # meta_file(cli.args)) =>
        LET file == meta_file(cli.args) IN
        initialDisk[file].exists => disk[file] = initialDisk[file]

\* C21: in one run the annotation file is read once, at the open; a read-only
\* command never writes a file that existed; a mutating command writes once,
\* after its mutations, to the output path; with -M the input file is left
\* unchanged.
C21_ReadOnceWriteOnce ==
    /\ C21_ReadOnce
    /\ C21_ReadOnlyKeepsFiles
    /\ C21_WritesOnce
    /\ C21_DistinctOutputKeepsInput

====
